---- MODULE Spec2Model ----
(***************************************************************************)
(* Static-priority scheduler (src/src/static_priority.rs).                 *)
(*                                                                         *)
(* StatPrioTask<T, N> wraps a payload with an atomic priority;             *)
(* StatPrioScheduler<T, N> keeps a Vec of N VecDeques of Arc handles.      *)
(* A task handle (an Arc, compared with Arc::ptr_eq) is a number in Tasks; *)
(* Option::None is NoTask.  Queue p of the source is ready_queues[p + 1],  *)
(* since TLA+ sequences start at 1.  usize and isize keep a width of       *)
(* WordBits bits, so that the casts of StatPrioTask::set_priority wrap as  *)
(* they do in the source.                                                  *)
(*                                                                         *)
(* last and added are history variables: last records the last call, what  *)
(* it returned and, for an insertion, its arguments; added is the log of   *)
(* the add_task calls that SpecFifo keeps.  picked, running, held and      *)
(* draining are the history variables of the specifications of the second  *)
(* half of the module, and inflight is the put_prev_task call that         *)
(* SpecConc runs in two steps.  The program never reads a history          *)
(* variable.                                                               *)
(***************************************************************************)
EXTENDS Integers, Sequences, FiniteSets

\* Bounds of the model.
NumTasks == 2
MaxReady == 3
MaxLevels == 2
WordBits == 4

\* AtomicUsize::new(1) in StatPrioTask::new.
InitialPriority == 1

Tasks == 1 .. NumTasks
NoTask == 0

\* usize and isize of WordBits bits.
Pow2(n) == IF n = 0 THEN 1 ELSE IF n = 1 THEN 2 ELSE IF n = 2 THEN 4
           ELSE IF n = 3 THEN 8 ELSE IF n = 4 THEN 16 ELSE 32
UsizeMod == Pow2(WordBits)
IsizeMax == Pow2(WordBits - 1) - 1
IsizeMin == 0 - Pow2(WordBits - 1)

\* `x as isize` for a usize x, and `x as usize` for an isize x.
AsIsize(x) == IF x > IsizeMax THEN x - UsizeMod ELSE x
AsUsize(x) == x % UsizeMod

\* The level counts N that pass the assertions of new(): the small ones, and
\* the largest one, isize::MAX + 1.
LevelCounts == {n \in (1 .. MaxLevels) \cup {IsizeMax + 1} :
                    n > 0 /\ n <= AsUsize(IsizeMax) + 1}

VARIABLES N, ready_queues, priority, panicked, last, added,
          picked, running, held, draining, inflight

\* The history variables that only the specifications after SpecFifo use.
later == <<picked, running, held, draining, inflight>>

vars == <<N, ready_queues, priority, panicked, last, added, later>>

----------------------------------------------------------------------------
\* VecDeque operations (indices are 0-based, as in the source).

\* The two pushes, each doing the work of the other.
push_back_as_front(q, x) == <<x>> \o q
push_front_as_back(q, x) == Append(q, x)

\* A pop_front that takes the element at the back.
pop_back(q) == IF q = <<>> THEN q ELSE SubSeq(q, 1, Len(q) - 1)

push_back(q, x) == Append(q, x)
push_front(q, x) == <<x>> \o q
\* A pop_front that leaves the element in the queue.
pop_front_keep(q) == q

pop_front(q) == IF q = <<>> THEN q ELSE Tail(q)
\* A remove that returns the element and leaves it in the queue.
remove_keep(q, index) == q

remove(q, index) ==
    IF index < Len(q)
    THEN SubSeq(q, 1, index) \o SubSeq(q, index + 2, Len(q))
    ELSE q

\* The number of queue positions in use, and the tasks that occupy one.
RECURSIVE TotalLen(_)
TotalLen(rq) == IF rq = <<>> THEN 0 ELSE Len(Head(rq)) + TotalLen(Tail(rq))

Enqueued(rq) == {t \in Tasks : \E i \in 1 .. Len(rq) : \E j \in 1 .. Len(rq[i]) :
                                    rq[i][j] = t}

\* The number of positions of q, and of the queues, that hold task.
Count(q, task) == Cardinality({i \in 1 .. Len(q) : q[i] = task})

RECURSIVE Occurrences(_, _)
Occurrences(rq, task) ==
    IF rq = <<>> THEN 0 ELSE Count(Head(rq), task) + Occurrences(Tail(rq), task)

----------------------------------------------------------------------------
\* StatPrioTask

\* StatPrioTask::set_priority: the value stored and the result.
Task_set_priority(old, prio) ==
    IF prio >= 0 /\ prio < AsIsize(N)
    THEN [priority |-> AsUsize(prio), ret |-> TRUE]
    ELSE [priority |-> old, ret |-> FALSE]

\* StatPrioTask::get_priority.
get_priority(task) == priority[task]

----------------------------------------------------------------------------
\* StatPrioScheduler: the loops, as functions of the queues.

\* A pick_next_task that takes from the last non-empty queue, not the first.
pick_scan_last(rq, prio) ==
    LET S == {p \in prio .. N - 1 : rq[p + 1] # <<>>}
    IN IF S = {} THEN N ELSE CHOOSE p \in S : \A q \in S : q <= p

\* pick_next_task: the first level whose pop_front returns Some, or N.
RECURSIVE pick_scan(_, _)
pick_scan(rq, prio) ==
    IF prio >= N THEN N
    ELSE IF Len(rq[prio + 1]) > 0 THEN prio
    ELSE pick_scan(rq, prio + 1)

\* A remove_task that takes the last handle that is ptr_eq to task.
remove_scan_last(rq, task, prio, index) ==
    LET S == {p \in prio .. N - 1 : \E i \in 1 .. Len(rq[p + 1]) : rq[p + 1][i] = task}
        lv == CHOOSE p \in S : \A q \in S : q <= p
        I == {i \in 1 .. Len(rq[lv + 1]) : rq[lv + 1][i] = task}
    IN IF S = {} THEN [level |-> N, index |-> 0]
       ELSE [level |-> lv, index |-> (CHOOSE i \in I : \A j \in I : j <= i) - 1]

\* A remove_task that compares the priorities of the tasks, not the handles.
RECURSIVE remove_scan_prio(_, _, _, _)
remove_scan_prio(rq, task, prio, index) ==
    IF prio >= N THEN [level |-> N, index |-> 0]
    ELSE IF index >= Len(rq[prio + 1]) THEN remove_scan_prio(rq, task, prio + 1, 0)
    ELSE IF priority[rq[prio + 1][index + 1]] = priority[task]
         THEN [level |-> prio, index |-> index]
    ELSE remove_scan_prio(rq, task, prio, index + 1)

\* remove_task: the position of the first handle that is ptr_eq to task, or
\* level N when the scan ends without one.
RECURSIVE remove_scan(_, _, _, _)
remove_scan(rq, task, prio, index) ==
    IF prio >= N THEN [level |-> N, index |-> 0]
    ELSE IF index >= Len(rq[prio + 1]) THEN remove_scan(rq, task, prio + 1, 0)
    ELSE IF rq[prio + 1][index + 1] = task THEN [level |-> prio, index |-> index]
    ELSE remove_scan(rq, task, prio, index + 1)

\* A highest_priority that reports the last non-empty queue.
hp_scan_last(rq, prio) == pick_scan_last(rq, prio)

\* highest_priority.
RECURSIVE hp_scan(_, _)
hp_scan(rq, prio) ==
    IF prio >= N THEN N
    ELSE IF rq[prio + 1] # <<>> THEN prio
    ELSE hp_scan(rq, prio + 1)

HighestPriority(rq) == hp_scan(rq, 0)

\* A put_prev_task that pushes to the queue after the one of the priority.
PutPrev_next_queue(rq, prio, prev, preempt) ==
    [rq EXCEPT ![((prio + 1) % Len(rq)) + 1] =
        IF preempt THEN push_front(@, prev) ELSE push_back(@, prev)]

\* put_prev_task: the queues after the push.
PutPrev(rq, prio, prev, preempt) ==
    IF preempt
    THEN [rq EXCEPT ![prio + 1] = push_front(@, prev)]
    ELSE [rq EXCEPT ![prio + 1] = push_back(@, prev)]

\* An add_task that passes preempt = true.
add_task_preempt_true == TRUE

\* add_task passes preempt = false.
add_task_preempt == FALSE

\* task_tick: the comparison of the two priorities.
TickResult(self_prio, current_prio) == self_prio > current_prio

----------------------------------------------------------------------------
\* The record of a call.  ret is the Option or the usize returned, ok the bool
\* returned.  task, preempt and level are kept for an insertion (the task, the
\* flag, the priority read); level also for a successful pick or removal (the
\* queue it took from).

NoCall == [op |-> "new", task |-> NoTask, preempt |-> FALSE, level |-> 0,
           ret |-> NoTask, ok |-> FALSE]

Call(op, ret) == [NoCall EXCEPT !.op = op, !.ret = ret]

CallBool(op, ok) == [NoCall EXCEPT !.op = op, !.ok = ok]

\* A panic (an index out of bounds) ends the program.
Panic(op) ==
    /\ panicked' = TRUE
    /\ last' = Call(op, NoTask)
    /\ UNCHANGED <<N, ready_queues, priority>>

Inited == Len(ready_queues) = N

----------------------------------------------------------------------------
Init ==
    /\ N \in LevelCounts
    /\ ready_queues = <<>>
    /\ priority = [t \in Tasks |-> InitialPriority]
    /\ panicked = FALSE
    /\ last = NoCall
    /\ added = <<>>
    /\ picked = <<>>
    /\ running = {}
    /\ held = [t \in Tasks |-> 0]
    /\ draining = FALSE
    /\ inflight = NoCall

\* init(): called once.
init ==
    /\ ~panicked
    /\ Len(ready_queues) = 0
    /\ ready_queues' = ready_queues \o [i \in 1 .. N |-> <<>>]
    /\ last' = Call("init", NoTask)
    /\ UNCHANGED <<N, priority, panicked>>

\* put_prev_task(prev, preempt), also the body of add_task.
PutPrevCall(op, prev, preempt) ==
    /\ ~panicked
    /\ LET prio == get_priority(prev) IN
       IF prio >= Len(ready_queues)
       THEN Panic(op)
       ELSE /\ ready_queues' = PutPrev(ready_queues, prio, prev, preempt)
            /\ last' = [Call(op, NoTask) EXCEPT
                            !.task = prev, !.preempt = preempt, !.level = prio]
            /\ UNCHANGED <<N, priority, panicked>>

put_prev_task(prev, preempt) == PutPrevCall("put_prev_task", prev, preempt)

\* An add_task that puts the task into queue 0, whatever its priority.
add_task_queue0(task) ==
    /\ ~panicked
    /\ IF Len(ready_queues) = 0
       THEN Panic("add_task")
       ELSE /\ ready_queues' = PutPrev(ready_queues, 0, task, add_task_preempt)
            /\ last' = [Call("add_task", NoTask) EXCEPT !.task = task, !.level = 0]
            /\ UNCHANGED <<N, priority, panicked>>

add_task(task) == PutPrevCall("add_task", task, add_task_preempt)

pick_next_task ==
    /\ ~panicked
    /\ IF Len(ready_queues) < N
       THEN Panic("pick_next_task")
       ELSE LET level == pick_scan(ready_queues, 0) IN
            IF level >= N
            THEN /\ last' = Call("pick_next_task", NoTask)
                 /\ UNCHANGED <<N, ready_queues, priority, panicked>>
            ELSE /\ ready_queues' = [ready_queues EXCEPT ![level + 1] = pop_front(@)]
                 /\ last' = [Call("pick_next_task", ready_queues[level + 1][1])
                                EXCEPT !.level = level]
                 /\ UNCHANGED <<N, priority, panicked>>

remove_task(task) ==
    /\ ~panicked
    /\ IF Len(ready_queues) < N
       THEN Panic("remove_task")
       ELSE LET at == remove_scan(ready_queues, task, 0, 0) IN
            IF at.level >= N
            THEN /\ last' = Call("remove_task", NoTask)
                 /\ UNCHANGED <<N, ready_queues, priority, panicked>>
            ELSE /\ ready_queues' =
                        [ready_queues EXCEPT ![at.level + 1] = remove(@, at.index)]
                 /\ last' = [Call("remove_task",
                                  ready_queues[at.level + 1][at.index + 1])
                                EXCEPT !.level = at.level]
                 /\ UNCHANGED <<N, priority, panicked>>

highest_priority ==
    /\ ~panicked
    /\ IF Len(ready_queues) < N
       THEN Panic("highest_priority")
       ELSE /\ last' = Call("highest_priority", HighestPriority(ready_queues))
            /\ UNCHANGED <<N, ready_queues, priority, panicked>>

task_tick(current) ==
    /\ ~panicked
    /\ IF Len(ready_queues) < N
       THEN Panic("task_tick")
       ELSE LET current_prio == get_priority(current)
                self_prio == HighestPriority(ready_queues)
            IN /\ last' = CallBool("task_tick", TickResult(self_prio, current_prio))
               /\ UNCHANGED <<N, ready_queues, priority, panicked>>

\* The isize arguments tried: the valid range and the values next to it.
PrioArgs == {p \in IsizeMin .. IsizeMax : p >= -1 /\ p <= N}

\* A set_priority that moves a queued task to the back of the queue of its
\* new priority.
set_priority_requeue(task, prio) ==
    /\ ~panicked
    /\ LET r == Task_set_priority(priority[task], prio)
           at == remove_scan(ready_queues, task, 0, 0)
       IN /\ priority' = [priority EXCEPT ![task] = r.priority]
          /\ last' = CallBool("set_priority", r.ret)
          /\ ready_queues' =
                IF r.ret /\ Inited /\ at.level < N
                THEN PutPrev([ready_queues EXCEPT ![at.level + 1] = remove(@, at.index)],
                             r.priority, task, FALSE)
                ELSE ready_queues
          /\ UNCHANGED <<N, panicked>>

set_priority(task, prio) ==
    /\ ~panicked
    /\ LET r == Task_set_priority(priority[task], prio) IN
       /\ priority' = [priority EXCEPT ![task] = r.priority]
       /\ last' = CallBool("set_priority", r.ret)
       /\ UNCHANGED <<N, ready_queues, panicked>>

\* The queues have room for one more handle, within the bound of the model.
Room == TotalLen(ready_queues) < MaxReady

Next ==
    \/ init /\ UNCHANGED <<added, later>>
    \/ \E t \in Tasks : Room /\ add_task(t) /\ UNCHANGED <<added, later>>
    \/ \E t \in Tasks : remove_task(t) /\ UNCHANGED <<added, later>>
    \/ pick_next_task /\ UNCHANGED <<added, later>>
    \/ \E t \in Tasks, b \in BOOLEAN :
            Room /\ put_prev_task(t, b) /\ UNCHANGED <<added, later>>
    \/ \E t \in Tasks : task_tick(t) /\ UNCHANGED <<added, later>>
    \/ \E t \in Tasks, p \in PrioArgs : set_priority(t, p) /\ UNCHANGED <<added, later>>
    \/ highest_priority /\ UNCHANGED <<added, later>>

Spec == Init /\ [][Next]_vars

----------------------------------------------------------------------------
\* Every queue position that holds t is in the queue of t's priority: what
\* holds of a task on which set_priority was not called since it was inserted.
InSync(rq, t) ==
    \A i \in 1 .. Len(rq) : \A j \in 1 .. Len(rq[i]) :
        rq[i][j] = t => i - 1 = priority[t]

\* C1: pick_next_task never returns a task b while a task a of a strictly
\* smaller priority value is ready, when both sit in the queue of their
\* priority (no set_priority since they were inserted): a is returned before b,
\* in whatever order add_task and put_prev_task inserted them.
C1_PickByPriority ==
    [][(last'.op = "pick_next_task" /\ pick_next_task /\ ~panicked'
            /\ last'.ret # NoTask) =>
        \A a \in Enqueued(ready_queues) :
            ~ /\ a # last'.ret
              /\ InSync(ready_queues, a)
              /\ InSync(ready_queues, last'.ret)
              /\ priority[a] < priority[last'.ret]]_vars

\* pick_next_task has returned a task while a task of a larger priority value,
\* also in the queue of its priority, stays ready.
C1_Witness ==
    /\ ~panicked
    /\ last.op = "pick_next_task"
    /\ last.ret # NoTask
    /\ last.level = priority[last.ret]
    /\ \E b \in Enqueued(ready_queues) :
            /\ b # last.ret
            /\ InSync(ready_queues, b)
            /\ priority[last.ret] < priority[b]

----------------------------------------------------------------------------
\* SpecFifo: the calls are add_task, pick_next_task, set_priority and the two
\* queries.  added[p + 1] is the log of the tasks that add_task was called on
\* while their priority was p and that no pick has returned yet, oldest first.

LogAdd(task) ==
    IF panicked' THEN added
    ELSE [added EXCEPT ![get_priority(task) + 1] = Append(@, task)]

LogPick ==
    IF panicked' \/ last'.ret = NoTask THEN added
    ELSE [added EXCEPT ![last'.level + 1] = IF @ = <<>> THEN @ ELSE Tail(@)]

NextFifo ==
    \/ init /\ added' = [i \in 1 .. N |-> <<>>] /\ UNCHANGED later
    \/ \E t \in Tasks : Room /\ add_task(t) /\ added' = LogAdd(t) /\ UNCHANGED later
    \/ pick_next_task /\ added' = LogPick /\ UNCHANGED later
    \/ \E t \in Tasks : task_tick(t) /\ UNCHANGED <<added, later>>
    \/ \E t \in Tasks, p \in PrioArgs : set_priority(t, p) /\ UNCHANGED <<added, later>>
    \/ highest_priority /\ UNCHANGED <<added, later>>

SpecFifo == Init /\ [][NextFifo]_vars

\* C2: a task that pick_next_task returns is the oldest task not yet returned
\* among those add_task was called on at the priority of the queue it comes
\* from: the tasks added at one priority are returned in the order of their
\* add_task calls.
C2_Fifo ==
    [][(last'.op = "pick_next_task" /\ pick_next_task /\ ~panicked'
            /\ last'.ret # NoTask) =>
        /\ added[last'.level + 1] # <<>>
        /\ last'.ret = Head(added[last'.level + 1])]_vars

\* A pick has returned the first of two different tasks added at one priority.
C2_Witness ==
    /\ ~panicked
    /\ last.op = "pick_next_task"
    /\ last.ret # NoTask
    /\ Len(added) = N
    /\ added[last.level + 1] # <<>>
    /\ Head(added[last.level + 1]) # last.ret

----------------------------------------------------------------------------
\* C3: task_tick(current) returns true if and only if
\* highest_priority() < get_priority(current).
C3_TickIffHigherReady ==
    [][\A t \in Tasks : (last'.op = "task_tick" /\ task_tick(t) /\ ~panicked') =>
        (last'.ok <=> HighestPriority(ready_queues) < get_priority(t))]_vars

\* The queue of prio, with task pushed at the front or at the back, and the
\* other queues as they were.
OnlyQueueChanged(rq, rq2, prio) ==
    /\ Len(rq2) = Len(rq)
    /\ \A i \in 1 .. Len(rq) : i # prio + 1 => rq2[i] = rq[i]

\* C4: put_prev_task(t, true) puts t at the front of the queue of t's current
\* priority and leaves the rest of the queues as they were; a pick that follows
\* at once and takes from that queue returns t, ahead of the tasks that were
\* queued there.
C4_PreemptedToFront ==
    [][/\ \A t \in Tasks :
            (last'.op = "put_prev_task" /\ put_prev_task(t, TRUE) /\ ~panicked') =>
            /\ ready_queues'[priority[t] + 1] = <<t>> \o ready_queues[priority[t] + 1]
            /\ OnlyQueueChanged(ready_queues, ready_queues', priority[t])
       /\ (/\ last.op = "put_prev_task" /\ last.preempt
           /\ last'.op = "pick_next_task" /\ pick_next_task /\ ~panicked'
           /\ last'.level = last.level) => last'.ret = last.task]_vars

\* put_prev_task(t, true) has put t in front of another task.
C4_Witness ==
    /\ ~panicked
    /\ last.op = "put_prev_task"
    /\ last.preempt
    /\ Len(ready_queues[last.level + 1]) >= 2
    /\ ready_queues[last.level + 1][1] = last.task
    /\ ready_queues[last.level + 1][2] # last.task

\* C5: put_prev_task(t, false) puts t at the back of the queue of t's current
\* priority: the tasks queued there keep their places, in front of t, and the
\* other queues are as they were; a pick that follows at once and takes from
\* that queue returns the task that was at its front, and t stays at the back.
C5_YieldedToBack ==
    [][/\ \A t \in Tasks :
            (last'.op = "put_prev_task" /\ put_prev_task(t, FALSE) /\ ~panicked') =>
            /\ ready_queues'[priority[t] + 1] = ready_queues[priority[t] + 1] \o <<t>>
            /\ OnlyQueueChanged(ready_queues, ready_queues', priority[t])
       /\ (/\ last.op = "put_prev_task" /\ ~last.preempt
           /\ last'.op = "pick_next_task" /\ pick_next_task /\ ~panicked'
           /\ last'.level = last.level
           /\ Len(ready_queues[last.level + 1]) >= 2) =>
            /\ last'.ret = ready_queues[last.level + 1][1]
            /\ ready_queues'[last.level + 1] # <<>>
            /\ ready_queues'[last.level + 1][Len(ready_queues'[last.level + 1])]
                    = last.task]_vars

\* put_prev_task(t, false) has put t behind two different tasks.
C5_Witness ==
    /\ ~panicked
    /\ last.op = "put_prev_task"
    /\ ~last.preempt
    /\ Len(ready_queues[last.level + 1]) = 3
    /\ ready_queues[last.level + 1][3] = last.task
    /\ ready_queues[last.level + 1][1] # ready_queues[last.level + 1][2]

\* C6: set_priority(t, p) returns true and stores p when 0 <= p < N; it returns
\* false and leaves the priority of t as it was otherwise.
C6_SetPriorityRange ==
    [][\A t \in Tasks, p \in PrioArgs :
        (last'.op = "set_priority" /\ set_priority(t, p)) =>
        IF 0 <= p /\ p < N
        THEN last'.ok /\ get_priority(t)' = p
        ELSE ~last'.ok /\ get_priority(t)' = get_priority(t)]_vars

\* C7: the stored priority of every task is in [0, N).
C7_PriorityInRange == \A t \in Tasks : 0 <= priority[t] /\ priority[t] < N

----------------------------------------------------------------------------
\* The first position of task in the scan order of remove_task: the first
\* queue that holds it and, there, its first index (from 1).
Holds(q, task) == \E i \in 1 .. Len(q) : q[i] = task

FirstLevel(rq, task) ==
    CHOOSE p \in 0 .. N - 1 :
        Holds(rq[p + 1], task) /\ \A q \in 0 .. p - 1 : ~Holds(rq[q + 1], task)

FirstIndex(q, task) ==
    CHOOSE i \in 1 .. Len(q) : q[i] = task /\ \A j \in 1 .. i - 1 : q[j] # task

Without(q, i) == [k \in 1 .. Len(q) - 1 |-> IF k < i THEN q[k] ELSE q[k + 1]]

\* C8: remove_task(t) on a task that is in some queue returns t and removes
\* the first position that holds t, in ascending queue order and from the front
\* of the queue; every other position keeps its task, in the same order.
C8_RemoveFirstMatch ==
    [][\A t \in Tasks :
        (last'.op = "remove_task" /\ ~panicked' /\ t \in Enqueued(ready_queues)
            /\ remove_task(t)) =>
            LET p == FirstLevel(ready_queues, t) IN
            /\ last'.ret = t
            /\ ready_queues' = [ready_queues EXCEPT
                    ![p + 1] = Without(@, FirstIndex(@, t))]
            /\ priority' = priority]_vars

\* remove_task has removed the first of two occurrences of a task from a queue
\* that holds another task too, in front of the second occurrence.
C8_Witness ==
    /\ ~panicked
    /\ last.op = "remove_task"
    /\ last.ret # NoTask
    /\ Len(ready_queues[last.level + 1]) = 2
    /\ ready_queues[last.level + 1][1] # last.ret
    /\ ready_queues[last.level + 1][2] = last.ret

\* C9: remove_task(t) on a task that is in no queue returns none and leaves the
\* queues as they were.
C9_RemoveAbsent ==
    [][\A t \in Tasks :
        (last'.op = "remove_task" /\ ~panicked' /\ t \notin Enqueued(ready_queues)
            /\ remove_task(t)) =>
            /\ last'.ret = NoTask
            /\ ready_queues' = ready_queues
            /\ priority' = priority]_vars

\* remove_task has returned none while a task of the same priority as an absent
\* one is queued.
C9_Witness ==
    /\ ~panicked
    /\ last.op = "remove_task"
    /\ last.ret = NoTask
    /\ \E t \in Tasks \ Enqueued(ready_queues) : \E u \in Enqueued(ready_queues) :
            priority[t] = priority[u]

\* The smallest index of a non-empty queue, or N.
LeastNonEmpty(rq) ==
    IF \A p \in 0 .. N - 1 : rq[p + 1] = <<>> THEN N
    ELSE CHOOSE p \in 0 .. N - 1 :
            rq[p + 1] # <<>> /\ \A q \in 0 .. p - 1 : rq[q + 1] = <<>>

\* C10: highest_priority() returns the smallest index of a non-empty queue, or
\* N when every queue is empty, and changes neither the queues nor a priority.
C10_HighestPriority ==
    [][(last'.op = "highest_priority" /\ highest_priority /\ ~panicked') =>
        /\ last'.ret = LeastNonEmpty(ready_queues)
        /\ ready_queues' = ready_queues
        /\ priority' = priority]_vars

\* highest_priority has returned 1: queue 0 is empty and queue 1 is not.
C10_Witness ==
    /\ ~panicked
    /\ last.op = "highest_priority"
    /\ last.ret = 1
    /\ N > 1
    /\ ready_queues[1] = <<>>
    /\ ready_queues[2] # <<>>

----------------------------------------------------------------------------
\* SpecScenario: the scenario of the specification.  Four tasks A, B, C, D
\* (1 .. 4) are constructed for a scheduler of four levels; set_priority gives
\* a task its priority before the task is added; add_task is called on A, B, C
\* and D in this order, and then pick_next_task is called five times.  picked
\* is the log of what the picks returned.

Scenario == [N |-> 4, prio |-> <<2, 0, 2, 1>>, picks |-> <<2, 4, 1, 3, NoTask>>]

ScenarioTasks == 1 .. Len(Scenario.prio)

InitScenario ==
    /\ N = Scenario.N
    /\ N > 0 /\ N <= AsUsize(IsizeMax) + 1
    /\ ready_queues = <<>>
    /\ priority = [t \in ScenarioTasks |-> InitialPriority]
    /\ panicked = FALSE
    /\ last = NoCall
    /\ added = <<>>
    /\ picked = <<>>
    /\ running = {}
    /\ held = [t \in Tasks |-> 0]
    /\ draining = FALSE
    /\ inflight = NoCall

\* The tasks are added in the order of their numbers, so the tasks in the
\* queues are the first TotalLen(ready_queues) ones.
NotYetAdded(t) == t > TotalLen(ready_queues) /\ picked = <<>>

NextScenario ==
    \/ init /\ UNCHANGED <<added, later>>
    \/ \E t \in ScenarioTasks, p \in PrioArgs :
            NotYetAdded(t) /\ set_priority(t, p) /\ UNCHANGED <<added, later>>
    \/ \E t \in ScenarioTasks :
            /\ Inited
            /\ NotYetAdded(t) /\ ~NotYetAdded(t - 1)
            /\ priority[t] = Scenario.prio[t]
            /\ add_task(t)
            /\ UNCHANGED <<added, later>>
    \/ /\ TotalLen(ready_queues) + Len(picked) >= Len(Scenario.prio)
       /\ Len(picked) < Len(Scenario.picks)
       /\ pick_next_task
       /\ picked' = Append(picked, last'.ret)
       /\ UNCHANGED <<added, running, held, draining, inflight>>

SpecScenario == InitScenario /\ [][NextScenario]_vars

\* A pick_next_task that returns: with every queue empty it returns none and
\* changes nothing; otherwise it returns the front of the non-empty queue of
\* the smallest index and removes it, and nothing else changes.
PickStep ==
    (last'.op = "pick_next_task" /\ pick_next_task /\ ~panicked') =>
        IF \A p \in 0 .. N - 1 : ready_queues[p + 1] = <<>>
        THEN /\ last'.ret = NoTask
             /\ ready_queues' = ready_queues
             /\ priority' = priority
        ELSE LET p == LeastNonEmpty(ready_queues) IN
             /\ last'.ret # NoTask
             /\ last'.ret = Head(ready_queues[p + 1])
             /\ ready_queues' = [ready_queues EXCEPT ![p + 1] = Tail(@)]
             /\ priority' = priority

IsPrefix(s, t) == Len(s) <= Len(t) /\ s = SubSeq(t, 1, Len(s))

\* C11: pick_next_task returns and removes the front of the non-empty queue of
\* the smallest index and leaves the other queued tasks where they are; it
\* returns none exactly when every queue is empty, and then changes nothing.
\* With N = 4, after add_task on A (priority 2), B (0), C (2) and D (1), the
\* picks return B, D, A, C and then none.
C11_PickFront ==
    /\ [][PickStep]_vars
    /\ [](IsPrefix(picked, Scenario.picks))

\* The five picks of the scenario have returned.
C11_Witness ==
    /\ ~panicked
    /\ last.op = "pick_next_task"
    /\ Len(picked) = Len(Scenario.picks)
    /\ picked[Len(picked)] = NoTask
    /\ picked[1] # NoTask

----------------------------------------------------------------------------
\* C12: add_task(t) does what put_prev_task(t, false) does from the same
\* state: it panics in the same states and otherwise leaves the same queues, t
\* appended to the back of the queue of its current priority and every other
\* queue as it was; pick_next_task then finds a task to return.
C12_AddIsPutPrevBack ==
    [][\A t \in Tasks :
        (last'.op = "add_task" /\ add_task(t)) =>
            /\ panicked' = (get_priority(t) >= Len(ready_queues))
            /\ ~panicked' =>
                /\ ready_queues' = PutPrev(ready_queues, get_priority(t), t, FALSE)
                /\ ready_queues' = [ready_queues EXCEPT
                        ![get_priority(t) + 1] = @ \o <<t>>]
                /\ priority' = priority
                /\ t \in Enqueued(ready_queues')
                /\ pick_scan(ready_queues', 0) <= get_priority(t)]_vars

\* add_task has put a task behind another one, in a queue that is not queue 0.
C12_Witness ==
    /\ ~panicked
    /\ last.op = "add_task"
    /\ last.level > 0
    /\ Len(ready_queues[last.level + 1]) >= 2
    /\ ready_queues[last.level + 1][Len(ready_queues[last.level + 1])] = last.task
    /\ ready_queues[last.level + 1][1] # last.task

----------------------------------------------------------------------------
\* C13: a set_priority call, whether it returns true or false, leaves every
\* queue as it was, contents and order, and the only priority it changes is
\* that of the task it is called on; the pick_next_task or highest_priority
\* that follows goes by the positions in the queues, not by the priorities
\* the tasks have now.
C13_SetPriorityKeepsQueues ==
    [][/\ last'.op = "set_priority" =>
                /\ ready_queues' = ready_queues
                /\ N' = N /\ panicked' = panicked
       /\ \A t \in Tasks :
            (last'.op = "set_priority" /\ priority'[t] # priority[t]) =>
                /\ \A u \in Tasks \ {t} : priority'[u] = priority[u]
                /\ \E p \in PrioArgs : set_priority(t, p)
       /\ (/\ last.op = "set_priority"
           /\ last'.op = "pick_next_task" /\ pick_next_task /\ ~panicked'
           /\ last'.ret # NoTask) =>
                /\ last'.level = LeastNonEmpty(ready_queues)
                /\ last'.ret = Head(ready_queues[last'.level + 1])
       /\ (/\ last.op = "set_priority"
           /\ last'.op = "highest_priority" /\ highest_priority /\ ~panicked') =>
                last'.ret = LeastNonEmpty(ready_queues)]_vars

\* set_priority has returned true and a queued task has a priority that is not
\* the index of its queue, smaller than that of a task queued in front of it.
C13_Witness ==
    /\ ~panicked
    /\ Inited
    /\ last.op = "set_priority"
    /\ last.ok
    /\ \E t \in Enqueued(ready_queues) :
            /\ ~InSync(ready_queues, t)
            /\ LeastNonEmpty(ready_queues) < N
            /\ priority[t] < priority[Head(ready_queues[LeastNonEmpty(ready_queues) + 1])]

----------------------------------------------------------------------------
\* C14: with every queue empty, task_tick(current) returns false, whatever the
\* priority of current.
C14_TickFalseWhenEmpty ==
    [][\A t \in Tasks :
        (/\ last'.op = "task_tick" /\ task_tick(t) /\ ~panicked'
         /\ TotalLen(ready_queues) = 0) => ~last'.ok]_vars

\* C15: once init has run, no call panics: the scheduler keeps exactly N
\* queues, and the priority that an insertion reads, the index of the queue it
\* pushes to, is below N.
C15_NoPanicAfterInit ==
    [][Inited =>
        /\ ~panicked'
        /\ Len(ready_queues') = N
        /\ \A t \in Tasks, b \in BOOLEAN :
                (add_task(t) \/ put_prev_task(t, b)) => get_priority(t) < N]_vars

----------------------------------------------------------------------------
\* SpecSync: the calls of Spec, with set_priority called only on tasks that are
\* in no queue.

NextSync ==
    \/ init /\ UNCHANGED <<added, later>>
    \/ \E t \in Tasks : Room /\ add_task(t) /\ UNCHANGED <<added, later>>
    \/ \E t \in Tasks : remove_task(t) /\ UNCHANGED <<added, later>>
    \/ pick_next_task /\ UNCHANGED <<added, later>>
    \/ \E t \in Tasks, b \in BOOLEAN :
            Room /\ put_prev_task(t, b) /\ UNCHANGED <<added, later>>
    \/ \E t \in Tasks : task_tick(t) /\ UNCHANGED <<added, later>>
    \/ \E t \in Tasks \ Enqueued(ready_queues), p \in PrioArgs :
            set_priority(t, p) /\ UNCHANGED <<added, later>>
    \/ highest_priority /\ UNCHANGED <<added, later>>

SpecSync == Init /\ [][NextSync]_vars

\* A step after which queue p holds t at more positions than before is an
\* add_task or a put_prev_task on t that read the priority p.
InsertedWherePriority ==
    \A t \in Tasks, p \in 0 .. N - 1 :
        (/\ Inited /\ Len(ready_queues') = N
         /\ Count(ready_queues'[p + 1], t) > Count(ready_queues[p + 1], t)) =>
            /\ last'.op \in {"add_task", "put_prev_task"}
            /\ add_task(t) \/ \E b \in BOOLEAN : put_prev_task(t, b)
            /\ last'.task = t
            /\ last'.level = p
            /\ get_priority(t) = p

\* C16: a task gets into queue p only through an add_task or a put_prev_task
\* that read its priority as p; with set_priority never called on a task that
\* is in a queue, every task in queue p has the priority p in every state.
C16_QueueIsPriority ==
    /\ [][InsertedWherePriority]_vars
    /\ [](\A t \in Tasks : InSync(ready_queues, t))

\* A task whose priority was set to 0 while it was in no queue has been
\* inserted, and a task of another priority is queued too.
C16_Witness ==
    /\ ~panicked
    /\ last.op \in {"add_task", "put_prev_task"}
    /\ last.level = 0
    /\ priority[last.task] = 0
    /\ \E u \in Enqueued(ready_queues) : priority[u] # 0

----------------------------------------------------------------------------
\* SpecLifecycle: the caller keeps to the task state machine.  running is the
\* set of the tasks that a pick_next_task has returned and that no call has
\* inserted since.  add_task is called on a task that is in no queue,
\* put_prev_task on a running task.  RepeatedAdd is the one call outside the
\* state machine: add_task on a task that is in a queue.  The specification
\* follows the caller up to the calls that leave a task at two positions and
\* through further repeated calls, and no further.

LifeAdd(t) ==
    /\ t \notin Enqueued(ready_queues)
    /\ Room /\ add_task(t)
    /\ running' = running \ {t}

LifePutPrev(t, b) ==
    /\ t \in running
    /\ Room /\ put_prev_task(t, b)
    /\ running' = running \ {t}

LifePick ==
    /\ pick_next_task
    /\ running' = IF last'.ret = NoTask THEN running ELSE running \cup {last'.ret}

RepeatedAdd(t) ==
    /\ t \in Enqueued(ready_queues)
    /\ Room /\ add_task(t)
    /\ running' = running \ {t}

NoDuplicate == \A t \in Tasks : Occurrences(ready_queues, t) <= 1

NextLifecycle ==
    \/ init /\ UNCHANGED <<added, later>>
    \/ \E t \in Tasks : LifeAdd(t) /\ UNCHANGED <<added, picked, held, draining, inflight>>
    \/ \E t \in Tasks, b \in BOOLEAN :
            LifePutPrev(t, b) /\ UNCHANGED <<added, picked, held, draining, inflight>>
    \/ LifePick /\ UNCHANGED <<added, picked, held, draining, inflight>>
    \/ \E t \in Tasks : remove_task(t) /\ UNCHANGED <<added, later>>
    \/ \E t \in Tasks, p \in PrioArgs : set_priority(t, p) /\ UNCHANGED <<added, later>>

NextRepeatedAdd ==
    \E t \in Tasks : RepeatedAdd(t) /\ UNCHANGED <<added, picked, held, draining, inflight>>

SpecLifecycle == Init /\ [][(NoDuplicate /\ NextLifecycle) \/ NextRepeatedAdd]_vars

\* Every task is at one queue position at most, and a running task at none.
AtMostOnce ==
    /\ NoDuplicate
    /\ running \cap Enqueued(ready_queues) = {}

\* C17: AtMostOnce holds after construction and every call that keeps to the
\* task state machine preserves it, so it holds for as long as the caller
\* keeps to the state machine; the scheduler does not look for the task in
\* its queues: an add_task on a task that is in a queue adds one more
\* occurrence of it.
C17_OnePositionPerTask ==
    /\ AtMostOnce
    /\ [][(AtMostOnce /\ NextLifecycle) => AtMostOnce']_vars
    /\ [][\A t \in Tasks :
            (last'.op = "add_task" /\ RepeatedAdd(t) /\ ~panicked') =>
                Occurrences(ready_queues', t) = Occurrences(ready_queues, t) + 1]_vars

\* A repeated add_task has left a task at two positions, while another task,
\* which a pick returned, is running.
C17_Witness ==
    /\ ~panicked
    /\ last.op = "add_task"
    /\ Occurrences(ready_queues, last.task) = 2
    /\ running \ {last.task} # {}

----------------------------------------------------------------------------
\* SpecConc: the scheduler calls run one at a time, and another actor stores
\* to the AtomicUsize of a task through StatPrioTask::set_priority at any
\* moment.  put_prev_task (and add_task, which calls it) is the scheduler
\* call that loads the priority and then uses it, so it runs in two steps:
\* the load of line 100, kept in inflight.level, and the push of lines
\* 101-106.  The other scheduler calls wait until no call is in flight.

Idle == inflight.op = "new"

put_prev_task_load(op, prev, preempt) ==
    /\ ~panicked
    /\ Idle
    /\ inflight' = [Call(op, NoTask) EXCEPT
                        !.task = prev, !.preempt = preempt, !.level = get_priority(prev)]
    /\ UNCHANGED <<N, ready_queues, priority, panicked, last>>

put_prev_task_push ==
    /\ ~panicked
    /\ ~Idle
    /\ inflight' = NoCall
    /\ IF inflight.level >= Len(ready_queues)
       THEN Panic(inflight.op)
       ELSE /\ ready_queues' = PutPrev(ready_queues, inflight.level,
                                       inflight.task, inflight.preempt)
            /\ last' = inflight
            /\ UNCHANGED <<N, priority, panicked>>

\* The store of the other actor.
store_priority(task, prio) ==
    /\ set_priority(task, prio)
    /\ UNCHANGED inflight

NextConc ==
    \/ Idle /\ init /\ UNCHANGED <<added, later>>
    \/ \E t \in Tasks : Room /\ put_prev_task_load("add_task", t, add_task_preempt)
            /\ UNCHANGED <<added, picked, running, held, draining>>
    \/ \E t \in Tasks, b \in BOOLEAN : Room /\ put_prev_task_load("put_prev_task", t, b)
            /\ UNCHANGED <<added, picked, running, held, draining>>
    \/ put_prev_task_push /\ UNCHANGED <<added, picked, running, held, draining>>
    \/ Idle /\ pick_next_task /\ UNCHANGED <<added, later>>
    \/ \E t \in Tasks : Idle /\ remove_task(t) /\ UNCHANGED <<added, later>>
    \/ \E t \in Tasks, p \in PrioArgs :
            store_priority(t, p) /\ UNCHANGED <<added, picked, running, held, draining>>

SpecConc == Init /\ [][NextConc]_vars

\* The push of a put_prev_task puts the task into the queue of the priority
\* that the call loaded, and into no other; every other task is at the
\* positions it had.
PushWhereLoaded ==
    (put_prev_task_push /\ ~panicked') =>
        /\ ready_queues'[inflight.level + 1] \in
                {ready_queues[inflight.level + 1] \o <<inflight.task>>,
                 <<inflight.task>> \o ready_queues[inflight.level + 1]}
        /\ OnlyQueueChanged(ready_queues, ready_queues', inflight.level)
        /\ \A u \in Tasks : Occurrences(ready_queues', u) =
                Occurrences(ready_queues, u) + (IF u = inflight.task THEN 1 ELSE 0)

\* C18: with set_priority stores of another actor between and inside the
\* scheduler calls, the priority of every task stays in [0, N); a
\* put_prev_task or add_task pushes the task to one queue, the one of the
\* priority it loaded; and a store changes no queue, so that no task is lost
\* or duplicated.
C18_ConcurrentSetPriority ==
    /\ [](\A t \in Tasks : 0 <= priority[t] /\ priority[t] < N)
    /\ [][PushWhereLoaded]_vars
    /\ [][(\E t \in Tasks, p \in PrioArgs : store_priority(t, p)) =>
            ready_queues' = ready_queues]_vars

----------------------------------------------------------------------------
\* SpecCount: the calls of Spec.  held[t] counts the insertions of t, by
\* add_task or put_prev_task, less the times a pick_next_task or a
\* remove_task has returned t.

CountInsert(task) ==
    held' = IF panicked' THEN held ELSE [held EXCEPT ![task] = @ + 1]

CountReturn ==
    held' = IF panicked' \/ last'.ret = NoTask THEN held
            ELSE [held EXCEPT ![last'.ret] = @ - 1]

NextCount ==
    \/ init /\ UNCHANGED <<added, later>>
    \/ \E t \in Tasks : Room /\ add_task(t) /\ CountInsert(t)
            /\ UNCHANGED <<added, picked, running, draining, inflight>>
    \/ \E t \in Tasks : remove_task(t) /\ CountReturn
            /\ UNCHANGED <<added, picked, running, draining, inflight>>
    \/ pick_next_task /\ CountReturn
            /\ UNCHANGED <<added, picked, running, draining, inflight>>
    \/ \E t \in Tasks, b \in BOOLEAN : Room /\ put_prev_task(t, b) /\ CountInsert(t)
            /\ UNCHANGED <<added, picked, running, draining, inflight>>
    \/ \E t \in Tasks : task_tick(t) /\ UNCHANGED <<added, later>>
    \/ \E t \in Tasks, p \in PrioArgs : set_priority(t, p) /\ UNCHANGED <<added, later>>
    \/ highest_priority /\ UNCHANGED <<added, later>>

SpecCount == Init /\ [][NextCount]_vars

\* What a call that returns adds to the number of queue positions in use.
Growth(call) ==
    IF call.op \in {"add_task", "put_prev_task"} THEN 1
    ELSE IF call.op \in {"pick_next_task", "remove_task"} /\ call.ret # NoTask THEN 0 - 1
    ELSE 0

\* C19: the queues hold every task as many times as it was inserted, less the
\* times a pick_next_task or a remove_task returned it; an insertion adds one
\* to the number of positions in use, a pick or a removal that returns a task
\* takes one off, and every other call leaves the number as it was.
C19_Conservation ==
    /\ [](\A t \in Tasks : Occurrences(ready_queues, t) = held[t])
    /\ [][~panicked' =>
            IF Growth(last') = 0
            THEN \/ ready_queues' = ready_queues
                 \/ TotalLen(ready_queues') = TotalLen(ready_queues)
            ELSE TotalLen(ready_queues') = TotalLen(ready_queues) + Growth(last')]_vars

\* remove_task has returned one of two occurrences of a task, and another task
\* is queued as well.
C19_Witness ==
    /\ ~panicked
    /\ last.op = "remove_task"
    /\ last.ret # NoTask
    /\ held[last.ret] = 1
    /\ \E u \in Tasks \ {last.ret} : held[u] >= 1

----------------------------------------------------------------------------
\* SpecDrain: the caller fills the queues with add_task and set_priority calls
\* (they reach every content of the queues with every choice of priorities),
\* then stops inserting (draining) and only calls pick_next_task, while
\* set_priority calls go on.  held counts, as in SpecCount, the insertions of
\* a task less the times it was returned: when the insertions stop it is the
\* number of times the task is ready.  A caller that drains keeps calling
\* pick_next_task: the weak fairness of DrainPick.

StopInserting ==
    /\ ~panicked
    /\ Inited
    /\ ~draining
    /\ draining' = TRUE
    /\ last' = NoCall
    /\ UNCHANGED <<N, ready_queues, priority, panicked, added,
                   picked, running, held, inflight>>

DrainPick ==
    /\ draining
    /\ pick_next_task
    /\ CountReturn
    /\ UNCHANGED <<added, picked, running, draining, inflight>>

NextDrain ==
    \/ ~draining /\ init /\ UNCHANGED <<added, later>>
    \/ \E t \in Tasks : ~draining /\ Room /\ add_task(t) /\ CountInsert(t)
            /\ UNCHANGED <<added, picked, running, draining, inflight>>
    \/ \E t \in Tasks, p \in PrioArgs : set_priority(t, p) /\ UNCHANGED <<added, later>>
    \/ StopInserting
    \/ DrainPick

SpecDrain == Init /\ [][NextDrain]_vars /\ WF_vars(DrainPick)

RECURSIVE SumOver(_, _)
SumOver(f, S) ==
    IF S = {} THEN 0
    ELSE LET x == CHOOSE y \in S : TRUE IN f[x] + SumOver(f, S \ {x})

\* A pick of the drain returns a task as long as a ready task has not been
\* returned, and it returns one of those; it returns none after that.
DrainStep ==
    DrainPick =>
        /\ (last'.ret # NoTask) <=> (SumOver(held, Tasks) > 0)
        /\ last'.ret # NoTask => held[last'.ret] > 0
        /\ SumOver(held', Tasks) =
                SumOver(held, Tasks) - (IF last'.ret # NoTask THEN 1 ELSE 0)

\* C20: once the insertions stop with k tasks ready, the next k picks each
\* return a task, every ready task is returned once for each position it
\* holds, whatever set_priority did to it in the meantime, and every later
\* pick returns none and changes nothing; with the caller going on to pick,
\* every ready task is returned in the end.
C20_Drain ==
    /\ [](draining => \A t \in Tasks :
                held[t] >= 0 /\ Occurrences(ready_queues, t) = held[t])
    /\ [][DrainStep]_vars
    /\ draining ~> (TotalLen(ready_queues) = 0 /\ SumOver(held, Tasks) = 0)

\* The drain has ended: a pick has returned the last ready task, which no
\* longer has the priority of the queue it sat in.
C20_Witness ==
    /\ ~panicked
    /\ draining
    /\ last.op = "pick_next_task"
    /\ last.ret # NoTask
    /\ SumOver(held, Tasks) = 0
    /\ priority[last.ret] # last.level

====
